---- MODULE Spec2Model ----
(***************************************************************************)
(* The data-preparation pipeline of "data processing/SQL_dumper.py":       *)
(* load_and_clean_data, create_legislator_nodes, process_bills,            *)
(* process_collaborations, calculate_sponsor_stats and the body of         *)
(* prepare_network_data.  Tables are sequences of rows; member ids and     *)
(* bill numbers are naturals whose order stands for the string order that  *)
(* Python's sorted() uses.                                                 *)
(***************************************************************************)
EXTENDS Integers, Sequences, FiniteSets, TLC

\* ------------------------------------------------------------- bounds
MaxRows == 4
MaxBillRows == 2
MaxLegRows == 1
NumDates == 2
MaxDistrict == 2

\* -------------------------------------------------- program constants
target_congress == 117
min_collaborations == 2
NoDistrict == -1

\* The bill numbers and bioguide ids that occur in the tables.
Bills == {1, 2}
Members == {1, 2}
Congresses == {target_congress - 1, target_congress, target_congress + 1}
Parties == {"D", "R"}

\* A raw latest_action_date cell: a day number for a parseable date,
\* RawGarbage for text that is no date, RawEmpty for an empty cell.
RawGarbage == -1
RawEmpty == 0
RawDates == (1..NumDates) \cup {RawGarbage, RawEmpty}
\* pandas' NaT, the value of a coerced date.
NaT == 0

\* A raw district cell: empty (nan) or a number, kept in tenths so that the
\* truncation of astype(int) is visible.
RawDistricts ==
    {[nan |-> TRUE, tenths |-> 0]} \cup
    {[nan |-> FALSE, tenths |-> 5 * k] : k \in (-2 * MaxDistrict)..(2 * MaxDistrict)}

SponsorRows ==
    [bill_number : Bills, bioguide_id : Members, sponsor_type : {"Primary", "Cosponsor"}]
BillRows ==
    [bill_number : Bills, congress : Congresses, latest_action_date : RawDates]
LegislatorRows ==
    [bioguide_id : Members, party : Parties \cup {"nan"}, district : RawDistricts]

SeqUpTo(S, n) == UNION {[1..k -> S] : k \in 0..n}

VARIABLES
    pc,                 \* position in prepare_network_data
    bills_csv,          \* bills.csv as read
    legislators_csv,    \* legislators.csv as read
    bill_sponsors_df,   \* bill_sponsors.csv as read (never cleaned)
    bills_df,           \* bills after load_and_clean_data
    legislators_df,     \* legislators after load_and_clean_data
    all_legislators,    \* create_legislator_nodes' result
    bills,              \* process_bills' result
    collaboration_counts, \* the pair counter of process_collaborations
    collaborations,     \* process_collaborations' result
    legislators,        \* the active legislators
    metrics,            \* calculate_sponsor_stats' result
    metadata,           \* the snapshot's metadata
    second_run          \* process_collaborations' result in a second run

vars == <<pc, bills_csv, legislators_csv, bill_sponsors_df, bills_df, legislators_df,
          all_legislators, bills, collaboration_counts, collaborations, legislators,
          metrics, metadata, second_run>>

\* ------------------------------------------------ load_and_clean_data

\* pd.to_datetime(..., errors='coerce')
to_datetime(raw) == IF raw >= 1 THEN raw ELSE NaT

\* sort_values('latest_action_date', ascending=False): later dates first,
\* NaT last; rows with equal keys keep their order.
RECURSIVE InsertByDate(_, _)
InsertByDate(row, sorted) ==
    IF sorted = <<>> THEN <<row>>
    ELSE IF Head(sorted).latest_action_date >= row.latest_action_date
         THEN <<Head(sorted)>> \o InsertByDate(row, Tail(sorted))
         ELSE <<row>> \o sorted

RECURSIVE sort_values(_)
sort_values(rows) ==
    IF rows = <<>> THEN <<>>
    ELSE LET n == Len(rows)
         IN InsertByDate(rows[n], sort_values(SubSeq(rows, 1, n - 1)))

\* .dt.strftime('%Y-%m-%d'): a date becomes a str, NaT becomes float nan.
strftime(d) ==
    IF d = NaT THEN [type |-> "float", day |-> 0] ELSE [type |-> "str", day |-> d]

\* astype(int) on a float column truncates toward zero.
astype_int(tenths) == IF tenths >= 0 THEN tenths \div 10 ELSE -((-tenths) \div 10)

\* legislators_df['district'].fillna(-1).astype(int)
clean_district(raw) == IF raw.nan THEN NoDistrict ELSE astype_int(raw.tenths)

\* legislators_df['party'].fillna('O')
clean_party(raw) == IF raw = "nan" THEN "O" ELSE raw

clean_bills(csv) ==
    LET kept == SelectSeq(csv, LAMBDA r : r.congress >= target_congress)
        parsed == [i \in DOMAIN kept |->
                     [kept[i] EXCEPT !.latest_action_date = to_datetime(@)]]
        sorted == sort_values(parsed)
    IN [i \in DOMAIN sorted |->
          [bill_number |-> sorted[i].bill_number,
           congress |-> sorted[i].congress,
           latest_action_date |-> strftime(sorted[i].latest_action_date)]]

clean_legislators(csv) ==
    [i \in DOMAIN csv |->
       [bioguide_id |-> csv[i].bioguide_id,
        party |-> clean_party(csv[i].party),
        district |-> clean_district(csv[i].district)]]

\* -------------------------------------------- create_legislator_nodes

\* A projection that never maps the sentinel to None.
node_district_raw(district) == [null |-> FALSE, value |-> district]

\* The district of a node: None (null) is modelled as a record of its own.
node_district(district) ==
    IF district # NoDistrict THEN [null |-> FALSE, value |-> district]
    ELSE [null |-> TRUE, value |-> 0]

create_legislator_nodes(df) ==
    [i \in DOMAIN df |->
       [id |-> df[i].bioguide_id,
        district |-> node_district(df[i].district),
        party |-> df[i].party]]

\* ------------------------------------------------------ process_bills

process_bills(df) ==
    [i \in DOMAIN df |->
       [bill_number |-> df[i].bill_number,
        congress |-> df[i].congress,
        latest_action_date |-> df[i].latest_action_date]]

\* --------------------------------------------- process_collaborations

EmptyDict == [x \in {} |-> 0]

\* bill_info.keys(): the bill numbers of the filtered bill table.
valid_bills(df) == {df[i].bill_number : i \in DOMAIN df}

\* bill_sponsors_df[sponsor_type == 'Primary'].set_index('bill_number')
\* ['bioguide_id'].to_dict(): with several Primary rows of a bill, the last stays.
primary_sponsors(sponsors) ==
    LET primary_rows == {i \in DOMAIN sponsors : sponsors[i].sponsor_type = "Primary"}
        keys == {sponsors[i].bill_number : i \in primary_rows}
        last(b) == CHOOSE i \in primary_rows :
                      /\ sponsors[i].bill_number = b
                      /\ \A j \in primary_rows : sponsors[j].bill_number = b => j <= i
    IN [b \in keys |-> sponsors[last(b)].bioguide_id]

\* The bioguide_id column of the Cosponsor rows of one bill, in row order.
cosponsors_of(sponsors, bill_number) ==
    LET rows == SelectSeq(sponsors, LAMBDA r : /\ r.bill_number = bill_number
                                               /\ r.sponsor_type = "Cosponsor")
    IN [i \in DOMAIN rows |-> rows[i].bioguide_id]

\* A pair kept in the order (primary sponsor, cosponsor), unsorted.
pair_unsorted(primary_sponsor, cosponsor) == <<primary_sponsor, cosponsor>>

\* tuple(sorted([primary_sponsor, cosponsor]))
pair(primary_sponsor, cosponsor) ==
    IF primary_sponsor <= cosponsor THEN <<primary_sponsor, cosponsor>>
    ELSE <<cosponsor, primary_sponsor>>

\* collaboration_counts[pair] += 1 on a defaultdict(int)
increment(counts, key) ==
    IF key \in DOMAIN counts THEN [counts EXCEPT ![key] = @ + 1]
    ELSE (key :> 1) @@ counts

\* A groupby without the isin(valid_bills) mask.
group_keys_unmasked(sponsors, valid) ==
    {sponsors[i].bill_number :
        i \in {j \in DOMAIN sponsors : sponsors[j].sponsor_type = "Cosponsor"}}

\* The keys of the groupby: bills of the filtered table with a Cosponsor row.
group_keys(sponsors, valid) ==
    {b \in valid : \E i \in DOMAIN sponsors : /\ sponsors[i].bill_number = b
                                              /\ sponsors[i].sponsor_type = "Cosponsor"}

\* for cosponsor in cosponsors: ... collaboration_counts[pair] += 1
RECURSIVE count_group(_, _, _)
count_group(counts, primary_sponsor, cosponsors) ==
    IF cosponsors = <<>> THEN counts
    ELSE count_group(increment(counts, pair(primary_sponsor, Head(cosponsors))),
                     primary_sponsor, Tail(cosponsors))

\* The first pass: the groups in ascending bill number, a group whose bill
\* has no primary sponsor skipped.
RECURSIVE count_pass(_, _, _, _)
count_pass(counts, keys, sponsors, primaries) ==
    IF keys = {} THEN counts
    ELSE LET bill_number == CHOOSE b \in keys : \A c \in keys : b <= c
             rest == keys \ {bill_number}
         IN IF bill_number \notin DOMAIN primaries
            THEN count_pass(counts, rest, sponsors, primaries)
            ELSE count_pass(count_group(counts, primaries[bill_number],
                                        cosponsors_of(sponsors, bill_number)),
                            rest, sponsors, primaries)

\* {pair: count for pair, count in ... if count >= min_collaborations}
significant_pairs(counts) == {p \in DOMAIN counts : counts[p] >= min_collaborations}

\* The records one bill contributes in the second pass.
RECURSIVE emit_bill(_, _, _, _)
emit_bill(bill_number, primary_sponsor, cosponsors, significant) ==
    IF cosponsors = <<>> THEN <<>>
    ELSE LET p == pair(primary_sponsor, Head(cosponsors))
             rest == emit_bill(bill_number, primary_sponsor, Tail(cosponsors), significant)
         IN IF p \in significant
            THEN <<[source |-> p[1], target |-> p[2], bill_number |-> bill_number]>> \o rest
            ELSE rest

\* for bill_number in valid_bills: the second pass, in the order the set
\* yields its elements.
RECURSIVE emit_pass(_, _, _, _)
emit_pass(order, sponsors, primaries, significant) ==
    IF order = <<>> THEN <<>>
    ELSE LET bill_number == Head(order)
             rest == emit_pass(Tail(order), sponsors, primaries, significant)
         IN IF bill_number \notin DOMAIN primaries THEN rest
            ELSE emit_bill(bill_number, primaries[bill_number],
                           cosponsors_of(sponsors, bill_number), significant) \o rest

\* The orders in which iterating a Python set can yield its elements: the
\* order follows the hashes of the elements, which for str keys differ from
\* one interpreter run to the next.
iteration_orders(S) ==
    {o \in [1..Cardinality(S) -> S] : \A i, j \in DOMAIN o : o[i] = o[j] => i = j}

\* ------------------------------------------- calculate_sponsor_stats

\* {leg['id']: leg['party'] for leg in legislators}: the last row of an id stays.
party_lookup(legs) ==
    LET ids == {legs[i].id : i \in DOMAIN legs}
        last(m) == CHOOSE i \in DOMAIN legs :
                      /\ legs[i].id = m
                      /\ \A j \in DOMAIN legs : legs[j].id = m => j <= i
    IN [m \in ids |-> legs[last(m)].party]

\* party_lookup.get(id, 'O')
lookup_get(lookup, id) == IF id \in DOMAIN lookup THEN lookup[id] ELSE "O"

\* stats[id]: the defaultdict's entry, made on first access.
stats_entry(stats, id) ==
    IF id \in DOMAIN stats THEN stats[id]
    ELSE [total_collaborations |-> 0, party_collaborations |-> EmptyDict]

\* stats[id]['total_collaborations'] += 1
add_total(stats, id) ==
    LET e == stats_entry(stats, id)
    IN (id :> [e EXCEPT !.total_collaborations = @ + 1]) @@ stats

\* stats[id]['party_collaborations'][party] += 1
add_party(stats, id, party) ==
    LET e == stats_entry(stats, id)
    IN (id :> [e EXCEPT !.party_collaborations = increment(@, party)]) @@ stats

\* A loop body that keys each endpoint's bucket by the endpoint's own party.
update_stats_own_party(stats, collab, lookup) ==
    LET s1 == add_total(stats, collab.source)
        s2 == add_party(s1, collab.source, lookup_get(lookup, collab.source))
        s3 == add_total(s2, collab.target)
    IN add_party(s3, collab.target, lookup_get(lookup, collab.target))

\* The body of the loop over the collaborations.
update_stats(stats, collab, lookup) ==
    LET s1 == add_total(stats, collab.source)
        s2 == add_party(s1, collab.source, lookup_get(lookup, collab.target))
        s3 == add_total(s2, collab.target)
    IN add_party(s3, collab.target, lookup_get(lookup, collab.source))

RECURSIVE stats_loop(_, _, _)
stats_loop(stats, collabs, lookup) ==
    IF collabs = <<>> THEN stats
    ELSE stats_loop(update_stats(stats, Head(collabs), lookup), Tail(collabs), lookup)

calculate_sponsor_stats(legs, collabs) ==
    stats_loop(EmptyDict, collabs, party_lookup(legs))

\* ----------------------------------------------- prepare_network_data

\* The ids added to active_legislators.
active_legislators(collabs) ==
    {collabs[i].source : i \in DOMAIN collabs} \cup {collabs[i].target : i \in DOMAIN collabs}

\* A legislator list that is not filtered.
filter_active_none(nodes, active) == nodes

\* [leg for leg in all_legislators if leg['id'] in active_legislators]
filter_active(nodes, active) == SelectSeq(nodes, LAMBDA leg : leg.id \in active)

\* a < b on two latest_action_date values: between a str and a float
\* Python raises TypeError; nan < nan is False.
Comparable(a, b) == a.type = b.type
py_less(a, b) == a.type = "str" /\ a.day < b.day

\* min(...) / max(...) over a generator: the result so far is replaced by an
\* item that compares less (greater); a comparison that raises ends the call.
RECURSIVE py_min(_, _)
py_min(best, items) ==
    IF items = <<>> THEN [raised |-> FALSE, value |-> best]
    ELSE IF ~Comparable(Head(items), best) THEN [raised |-> TRUE, value |-> best]
    ELSE py_min(IF py_less(Head(items), best) THEN Head(items) ELSE best, Tail(items))

RECURSIVE py_max(_, _)
py_max(best, items) ==
    IF items = <<>> THEN [raised |-> FALSE, value |-> best]
    ELSE IF ~Comparable(Head(items), best) THEN [raised |-> TRUE, value |-> best]
    ELSE py_max(IF py_less(best, Head(items)) THEN Head(items) ELSE best, Tail(items))

action_dates(bs) == [i \in DOMAIN bs |-> bs[i].latest_action_date]

NoMetadata == [date_range |-> <<>>, total_bills |-> 0,
               total_collaborations |-> 0, total_legislators |-> 0]

\* ------------------------------------------------------------ inputs

\* Bill tables with one row per bill: the bills of `kept` are of the target
\* congress, the others of the congress before it.
one_row_per_bill(kept) ==
    [b \in Bills |->
       [bill_number |-> b,
        congress |-> IF b \in kept THEN target_congress ELSE target_congress - 1,
        latest_action_date |-> ((b - 1) % NumDates) + 1]]

\* Legislator tables with at most one row per member.
roster(listed, no_party) ==
    LET ids == CHOOSE o \in iteration_orders(listed) : \A i, j \in DOMAIN o : i < j => o[i] < o[j]
    IN [i \in DOMAIN ids |->
          [bioguide_id |-> ids[i],
           party |-> IF ids[i] \in no_party THEN "nan"
                     ELSE IF ids[i] % 2 = 1 THEN "D" ELSE "R",
           district |-> [nan |-> FALSE, tenths |-> 10 * ids[i]]]]

Blank ==
    /\ pc = "start"
    /\ bills_df = <<>>
    /\ legislators_df = <<>>
    /\ all_legislators = <<>>
    /\ bills = <<>>
    /\ collaboration_counts = EmptyDict
    /\ collaborations = <<>>
    /\ legislators = <<>>
    /\ metrics = EmptyDict
    /\ metadata = NoMetadata
    /\ second_run = <<>>

\* The sponsorships of the two-bill example: on each bill member 1 is the
\* primary sponsor and member 2 a cosponsor.
example_sponsors ==
    <<[bill_number |-> 1, bioguide_id |-> 1, sponsor_type |-> "Primary"],
      [bill_number |-> 1, bioguide_id |-> 2, sponsor_type |-> "Cosponsor"],
      [bill_number |-> 2, bioguide_id |-> 1, sponsor_type |-> "Primary"],
      [bill_number |-> 2, bioguide_id |-> 2, sponsor_type |-> "Cosponsor"]>>

\* Any sponsorship table, any set of bills kept by the congress filter;
\* every legislator listed.
Init ==
    /\ bill_sponsors_df \in SeqUpTo(SponsorRows, MaxRows)
    /\ bills_csv \in {one_row_per_bill(kept) : kept \in SUBSET Bills}
    /\ legislators_csv = roster(Members, {})
    /\ Blank

\* Any sponsorship table; legislators listed or not (at least one is), with
\* or without a party.
InitRoster ==
    /\ bill_sponsors_df \in SeqUpTo(SponsorRows, MaxRows)
    /\ bills_csv = one_row_per_bill(Bills)
    /\ legislators_csv \in {roster(listed, no_party) :
                               listed \in (SUBSET Members) \ {{}},
                               no_party \in SUBSET Members}
    /\ Blank

\* Any bill table: congresses around the target, dates valid or not.
InitDates ==
    /\ bill_sponsors_df = example_sponsors
    /\ bills_csv \in SeqUpTo(BillRows, MaxBillRows)
    /\ legislators_csv = roster(Members, {})
    /\ Blank

\* Any legislator table with a row: districts of any value, or none.
InitDistrict ==
    /\ bill_sponsors_df = example_sponsors
    /\ bills_csv = one_row_per_bill(Bills)
    /\ legislators_csv \in SeqUpTo(LegislatorRows, MaxLegRows) \ {<<>>}
    /\ Blank

\* ----------------------------------------------------------- actions

LoadAndCleanData ==
    /\ pc = "start"
    /\ bills_df' = clean_bills(bills_csv)
    /\ legislators_df' = clean_legislators(legislators_csv)
    /\ pc' = "loaded"
    /\ UNCHANGED <<bills_csv, legislators_csv, bill_sponsors_df, all_legislators, bills,
                   collaboration_counts, collaborations, legislators, metrics, metadata,
                   second_run>>

CreateLegislatorNodes ==
    /\ pc = "loaded"
    /\ all_legislators' = create_legislator_nodes(legislators_df)
    /\ pc' = "nodes"
    /\ UNCHANGED <<bills_csv, legislators_csv, bill_sponsors_df, bills_df, legislators_df,
                   bills, collaboration_counts, collaborations, legislators, metrics,
                   metadata, second_run>>

ProcessBills ==
    /\ pc = "nodes"
    /\ bills' = process_bills(bills_df)
    /\ pc' = "bills"
    /\ UNCHANGED <<bills_csv, legislators_csv, bill_sponsors_df, bills_df, legislators_df,
                   all_legislators, collaboration_counts, collaborations, legislators,
                   metrics, metadata, second_run>>

ProcessCollaborations ==
    /\ pc = "bills"
    /\ \E order \in iteration_orders(valid_bills(bills_df)) :
         LET primaries == primary_sponsors(bill_sponsors_df)
             counts == count_pass(EmptyDict,
                                  group_keys(bill_sponsors_df, valid_bills(bills_df)),
                                  bill_sponsors_df, primaries)
         IN /\ collaboration_counts' = counts
            /\ collaborations' = emit_pass(order, bill_sponsors_df, primaries,
                                           significant_pairs(counts))
    /\ pc' = "collaborations"
    /\ UNCHANGED <<bills_csv, legislators_csv, bill_sponsors_df, bills_df, legislators_df,
                   all_legislators, bills, legislators, metrics, metadata, second_run>>

FilterActiveLegislators ==
    /\ pc = "collaborations"
    /\ legislators' = filter_active(all_legislators, active_legislators(collaborations))
    /\ pc' = "active"
    /\ UNCHANGED <<bills_csv, legislators_csv, bill_sponsors_df, bills_df, legislators_df,
                   all_legislators, bills, collaboration_counts, collaborations, metrics,
                   metadata, second_run>>

CalculateSponsorStats ==
    /\ pc = "active"
    /\ metrics' = calculate_sponsor_stats(legislators, collaborations)
    /\ pc' = "metrics"
    /\ UNCHANGED <<bills_csv, legislators_csv, bill_sponsors_df, bills_df, legislators_df,
                   all_legislators, bills, collaboration_counts, collaborations,
                   legislators, metadata, second_run>>

\* The metadata and the returned snapshot; an exception ends the run.
AssembleSnapshot ==
    /\ pc = "metrics"
    /\ LET dates == action_dates(bills)
           lo == IF dates = <<>> THEN [raised |-> TRUE, value |-> <<>>]
                 ELSE py_min(Head(dates), Tail(dates))
           hi == IF dates = <<>> THEN [raised |-> TRUE, value |-> <<>>]
                 ELSE py_max(Head(dates), Tail(dates))
       IN IF lo.raised \/ hi.raised
          THEN /\ pc' = "raised"
               /\ metadata' = metadata
          ELSE /\ pc' = "done"
               /\ metadata' = [date_range |-> <<lo.value, hi.value>>,
                               total_bills |-> Len(bills),
                               total_collaborations |-> Len(collaborations),
                               total_legislators |-> Len(legislators)]
    /\ UNCHANGED <<bills_csv, legislators_csv, bill_sponsors_df, bills_df, legislators_df,
                   all_legislators, bills, collaboration_counts, collaborations,
                   legislators, metrics, second_run>>

\* A second run of the script on the same files: its collaborations.
SecondRun ==
    /\ pc = "done"
    /\ \E order \in iteration_orders(valid_bills(bills_df)) :
         LET primaries == primary_sponsors(bill_sponsors_df)
             counts == count_pass(EmptyDict,
                                  group_keys(bill_sponsors_df, valid_bills(bills_df)),
                                  bill_sponsors_df, primaries)
         IN second_run' = emit_pass(order, bill_sponsors_df, primaries,
                                    significant_pairs(counts))
    /\ pc' = "second_done"
    /\ UNCHANGED <<bills_csv, legislators_csv, bill_sponsors_df, bills_df, legislators_df,
                   all_legislators, bills, collaboration_counts, collaborations,
                   legislators, metrics, metadata>>

Next ==
    \/ LoadAndCleanData
    \/ CreateLegislatorNodes
    \/ ProcessBills
    \/ ProcessCollaborations
    \/ FilterActiveLegislators
    \/ CalculateSponsorStats
    \/ AssembleSnapshot
    \/ SecondRun

Spec == Init /\ [][Next]_vars

SpecRoster == InitRoster /\ [][Next]_vars
SpecDates == InitDates /\ [][Next]_vars
SpecDistrict == InitDistrict /\ [][Next]_vars


\* ======================================================== properties
\* The notions the properties speak of, stated on the tables as read.

Finished == {"done", "raised", "second_done"}
AfterCollaborations == {"collaborations", "active", "metrics"} \cup Finished
AfterActive == {"active", "metrics"} \cup Finished
AfterMetrics == {"metrics"} \cup Finished
AfterNodes == {"nodes", "bills"} \cup AfterCollaborations

HasRow(bill_number, member, role) ==
    \E i \in DOMAIN bill_sponsors_df :
        bill_sponsors_df[i] = [bill_number |-> bill_number, bioguide_id |-> member,
                               sponsor_type |-> role]

\* The bills the congress filter keeps.
FilteredBills ==
    {bills_csv[i].bill_number :
        i \in {j \in DOMAIN bills_csv : bills_csv[j].congress >= target_congress}}

\* Qualifying bills: in the filtered set, with a primary sponsor.
QualifyingBills == {b \in FilteredBills : \E m \in Members : HasRow(b, m, "Primary")}

\* The qualifying bills that members a and b share as primary sponsor and cosponsor.
SharedBills(a, b) ==
    {bn \in QualifyingBills :
        LET primary == primary_sponsors(bill_sponsors_df)[bn]
        IN \/ primary = a /\ HasRow(bn, b, "Cosponsor")
           \/ primary = b /\ HasRow(bn, a, "Cosponsor")}

\* The records of the unordered pair {a, b}.
RecordsOf(a, b) ==
    {i \in DOMAIN collaborations :
        {collaborations[i].source, collaborations[i].target} = {a, b}}

\* The records in which a member is an endpoint.
RecordsWith(m) ==
    {i \in DOMAIN collaborations :
        collaborations[i].source = m \/ collaborations[i].target = m}

RECURSIVE SumValues(_)
SumValues(f) ==
    IF DOMAIN f = {} THEN 0
    ELSE LET k == CHOOSE x \in DOMAIN f : TRUE
         IN f[k] + SumValues([x \in DOMAIN f \ {k} |-> f[x]])

\* C1: a pair that shares exactly one qualifying bill has no record; a pair
\* that shares two or more has one record per shared bill.
C1_ThresholdByBills ==
    pc \in AfterCollaborations =>
        \A a, b \in Members :
            LET n == Cardinality(SharedBills(a, b))
            IN /\ n = 1 => RecordsOf(a, b) = {}
               /\ n >= 2 => Cardinality(RecordsOf(a, b)) = n

\* C2: the ids of the snapshot's legislators are exactly the ids that occur
\* as source or target of a collaboration.
C2_ActiveClosure ==
    pc \in AfterActive =>
        {legislators[i].id : i \in DOMAIN legislators} = active_legislators(collaborations)

\* C2 (amended): the ids of the snapshot's legislators are exactly the ids
\* that occur in a collaboration and have a row in the legislator table.
C2_ActiveClosureListed ==
    pc \in AfterActive =>
        {legislators[i].id : i \in DOMAIN legislators} =
            active_legislators(collaborations)
                \cap {legislators_csv[i].bioguide_id : i \in DOMAIN legislators_csv}

\* A legislator is kept, one is dropped, and a collaborating member has no row.
C2_Witness ==
    /\ pc = "done"
    /\ legislators # <<>>
    /\ \E m \in active_legislators(collaborations) :
          \A i \in DOMAIN legislators_csv : legislators_csv[i].bioguide_id # m

\* C3: total_collaborations of an id is the number of records in which the
\* id is source or target.
C3_TotalIsRecordCount ==
    pc \in AfterMetrics =>
        \A m \in DOMAIN metrics :
            metrics[m].total_collaborations = Cardinality(RecordsWith(m))

\* C4: every record has source <= target, and no pair occurs in both
\* orientations.
C4_CanonicalOrder ==
    pc \in AfterCollaborations =>
        /\ \A i \in DOMAIN collaborations :
              collaborations[i].source <= collaborations[i].target
        /\ \A i, j \in DOMAIN collaborations :
              ~ /\ collaborations[i].source # collaborations[i].target
                /\ collaborations[i].source = collaborations[j].target
                /\ collaborations[i].target = collaborations[j].source

\* Two records of one pair, the primary sponsor the source of one and the
\* target of the other.
C4_Witness ==
    /\ pc = "collaborations"
    /\ \E i, j \in DOMAIN collaborations :
          LET primaries == primary_sponsors(bill_sponsors_df)
          IN /\ collaborations[i].source < collaborations[i].target
             /\ primaries[collaborations[i].bill_number] = collaborations[i].source
             /\ primaries[collaborations[j].bill_number] = collaborations[j].target
             /\ collaborations[j].source = collaborations[i].source
             /\ collaborations[j].target = collaborations[i].target

\* The Cosponsor rows that can count toward the pair p: rows of a bill of
\* the filtered set, with a Primary row of the bill for the other member.
CountableRows(p) ==
    {i \in DOMAIN bill_sponsors_df :
        /\ bill_sponsors_df[i].sponsor_type = "Cosponsor"
        /\ bill_sponsors_df[i].bill_number \in FilteredBills
        /\ \E m \in Members :
              /\ HasRow(bill_sponsors_df[i].bill_number, m, "Primary")
              /\ {m, bill_sponsors_df[i].bioguide_id} = {p[1], p[2]}}

\* C5: a record of bill b joins a Primary row of b with a Cosponsor row of
\* b, and b is in the filtered set; bills without a Primary row or outside
\* the filtered set add nothing to the pair counts.
C5_PrimaryCosponsorOnly ==
    pc \in AfterCollaborations =>
        /\ \A i \in DOMAIN collaborations :
              LET r == collaborations[i]
              IN /\ r.bill_number \in FilteredBills
                 /\ \E p, c \in Members :
                       /\ HasRow(r.bill_number, p, "Primary")
                       /\ HasRow(r.bill_number, c, "Cosponsor")
                       /\ {r.source, r.target} = {p, c}
        /\ \A p \in DOMAIN collaboration_counts :
              /\ collaboration_counts[p] >= 1
              /\ collaboration_counts[p] <= Cardinality(CountableRows(p))

\* Records are emitted while some Cosponsor row belongs to a bill that has
\* no Primary row or is outside the filtered set.
C5_Witness ==
    /\ pc = "collaborations"
    /\ collaborations # <<>>
    /\ \E i \in DOMAIN bill_sponsors_df :
          /\ bill_sponsors_df[i].sponsor_type = "Cosponsor"
          /\ bill_sponsors_df[i].bill_number \notin QualifyingBills

\* The party under which member m is counted: that of its last row in the
\* legislator table, "O" when the cell is empty or m has no row.
PartyKey(m) ==
    LET rows == {i \in DOMAIN legislators_csv : legislators_csv[i].bioguide_id = m}
    IN IF rows = {} THEN "O"
       ELSE LET last == CHOOSE i \in rows : \A j \in rows : j <= i
            IN IF legislators_csv[last].party = "nan" THEN "O"
               ELSE legislators_csv[last].party

\* How often member m is an endpoint of a record whose other endpoint is
\* counted under `party`.
EndpointCount(m, party) ==
    Cardinality({i \in DOMAIN collaborations :
                    collaborations[i].source = m /\ PartyKey(collaborations[i].target) = party})
    + Cardinality({i \in DOMAIN collaborations :
                    collaborations[i].target = m /\ PartyKey(collaborations[i].source) = party})

IntegerPart(tenths) ==
    CHOOSE v \in -(2 * MaxDistrict + 1)..(2 * MaxDistrict + 1) :
        IF tenths >= 0 THEN 10 * v <= tenths /\ tenths < 10 * v + 10
        ELSE 10 * v >= tenths /\ tenths > 10 * v - 10

\* C7: the district is null when the raw district is -1 or missing, and a
\* positive integer otherwise.
C7_DistrictPositive ==
    pc \in AfterNodes =>
        \A i \in DOMAIN all_legislators :
            LET raw == legislators_csv[i].district
                out == all_legislators[i].district
            IN IF raw.nan \/ raw.tenths = -10 THEN out.null
               ELSE ~out.null /\ out.value > 0

\* C7 (amended): the district is null when the raw district is missing or
\* its integer part is -1, and the integer part of the raw value otherwise;
\* -1 is never exposed.
C7_DistrictSentinel ==
    pc \in AfterNodes =>
        \A i \in DOMAIN all_legislators :
            LET raw == legislators_csv[i].district
                out == all_legislators[i].district
            IN /\ out.null <=> (raw.nan \/ IntegerPart(raw.tenths) = -1)
               /\ ~out.null => out.value = IntegerPart(raw.tenths) /\ out.value # -1

\* A raw district of -1 has become null.
C7_Witness ==
    /\ pc = "nodes"
    /\ \E i \in DOMAIN all_legislators :
          /\ ~legislators_csv[i].district.nan
          /\ legislators_csv[i].district.tenths = -10
          /\ all_legislators[i].district.null

\* C8: the primary sponsor of a bill never pairs with itself: no self-pair
\* is counted and no record has source = target.
C8_NoSelfPair ==
    pc \in AfterCollaborations =>
        /\ \A m \in Members : <<m, m>> \notin DOMAIN collaboration_counts
        /\ \A i \in DOMAIN collaborations :
              collaborations[i].source # collaborations[i].target

\* The valid latest-action dates of the filtered bills.
ValidDays ==
    {bills_csv[i].latest_action_date :
        i \in {j \in DOMAIN bills_csv : /\ bills_csv[j].congress >= target_congress
                                         /\ bills_csv[j].latest_action_date >= 1}}

\* C9: with at least one valid date among the filtered bills the run
\* completes, and the date range is the least and the greatest valid date.
C9_MissingDatesExcluded ==
    (pc \in Finished /\ ValidDays # {}) =>
        /\ pc # "raised"
        /\ metadata.date_range =
              <<[type |-> "str", day |-> CHOOSE d \in ValidDays : \A e \in ValidDays : d <= e],
                [type |-> "str", day |-> CHOOSE d \in ValidDays : \A e \in ValidDays : d >= e]>>

\* C10: a second run on the same tables returns the same records in the
\* same order.
C10_SameOrder == pc = "second_done" => second_run = collaborations

====
